---- MODULE Spec2Model ----
(***************************************************************************)
(* Model of run.py: the fixed-horizon reorder planner.  The script is a    *)
(* straight-line batch run; each section of the script is one action and   *)
(* pc is the section about to run.                                         *)
(*                                                                         *)
(* Representation.                                                         *)
(*   dates       day of March 2020 (17 is 2020-03-17)                      *)
(*   quantities  integers in ticks of 1/10000 unit (floats in the code)    *)
(*   unit cost   pence per unit; estimated cost in pence                   *)
(*   ingredient  its rank in alphabetical order (IngredientName)           *)
(*   NaN / None  the empty sequence <<>>; a present value v is <<v>>       *)
(***************************************************************************)
EXTENDS Integers, Sequences, FiniteSets, TLC

VARIABLES bank_week1, bank_week2, bank_week3, forecast_df, actual,
          pc, forecast, start_date, ingredients, daily, deliveries,
          base_inventory, current_inventory, ing_pos, visited, reorder_rows, reorder_plan,
          rec_rows, dynamic_cost, recurring_cost, savings

vars == <<bank_week1, bank_week2, bank_week3, forecast_df, actual,
          pc, forecast, start_date, ingredients, daily, deliveries,
          base_inventory, current_inventory, ing_pos, visited, reorder_rows, reorder_plan,
          rec_rows, dynamic_cost, recurring_cost, savings>>

inputs == <<bank_week1, bank_week2, bank_week3, forecast_df, actual>>
horizon == <<start_date, ingredients>>

----------------------------------------------------------------------------
(* Program constants *)

LEAD_TIME_DAYS == 3
RECURRENCE_DAYS == 7
actual_start == 10
actual_end == 16
forecast_start == 17
forecast_end == 23

variation_factors == <<85, 110, 95, 105, 115, 90, 100>>   \* hundredths

----------------------------------------------------------------------------
(* Bounds and input domains *)

MaxTxn == 2          \* purchase transactions over the three bank files

TicksPerUnit == 100 * 100
Units(n) == n * TicksPerUnit

IngredientName == <<"Bun", "Ketchup">>
IngredientIds == DOMAIN IngredientName

\* What a purchase line can be: supplier, unit, unit cost (0.50 and 1.25
\* pounds), quantity (200 and 100.03 units) and day.
BakeCo(d) ==
  [merchant |-> "BakeCo", unit |-> "unit", unit_cost_gbp |-> 50,
   qty |-> Units(200), txn_date |-> d]
FreshFarm(d) ==
  [merchant |-> "FreshFarm", unit |-> "g", unit_cost_gbp |-> 125,
   qty |-> Units(100) + 300, txn_date |-> d]

\* Lines of the three weekly bank files.  With the lead time of 3 days the
\* last-week lines are delivered on the 15th (before the horizon starts), on
\* the 17th (the day it starts) and on the 18th (inside it).
Week1Lines == { BakeCo(2) }
Week2Lines == { FreshFarm(8) }
Week3Lines == { BakeCo(12), FreshFarm(14), FreshFarm(15) }

Transactions(lines) ==
  { [ingredient |-> i, unit |-> o.unit, qty |-> o.qty,
     unit_cost_gbp |-> o.unit_cost_gbp, merchant |-> o.merchant,
     txn_date |-> o.txn_date] : i \in IngredientIds, o \in lines }

BoundedSeq(S, n) == UNION { [1..k -> S] : k \in 0..n }

\* Historical forecast table (fallback path): dates of the table, and the
\* predicted quantity per table date index; <<>> is a date with no row.
HistDates == <<101, 102, 103, 104, 105, 106, 107, 108>>

Profiles ==
  { [k \in DOMAIN HistDates |-> <<Units(50)>>],
    [k \in DOMAIN HistDates |-> <<Units(25) \div 2>>],
    [k \in DOMAIN HistDates |-> IF k <= 4 THEN <<>> ELSE <<Units(100)>>] }

RECURSIVE Flatten(_)
Flatten(ss) == IF ss = <<>> THEN <<>> ELSE Head(ss) \o Flatten(Tail(ss))

ProfileRows(i, p) ==
  Flatten([k \in DOMAIN HistDates |->
             IF p[k] = <<>> THEN <<>>
             ELSE << [date |-> HistDates[k], ingredient |-> i,
                      pred_qty |-> p[k][1]] >>])

\* One profile per ingredient that the table mentions, ingredient-major,
\* with or without its first row repeated.
ForecastTables ==
  { LET base == Flatten([i \in IngredientIds |->
                           IF a[i] = <<>> THEN <<>> ELSE ProfileRows(i, a[i][1])])
    IN  base \o [k \in 1..n |-> base[1]] :
      a \in { f \in [IngredientIds -> {<<>>} \cup {<<p>> : p \in Profiles}] :
                \E i \in IngredientIds : f[i] # <<>> },
      n \in {0, 1} }

\* Aggregated actual usage of the previous week (the result of
\* pos_to_ingredients): at most two rows, keyed by (date, ingredient, unit).
\* The rows fall on the last two days of the actual-usage window.
ActualDays == { d \in actual_start..actual_end : d >= actual_end - 1 }
ActualKeys == { <<d, i>> : d \in ActualDays, i \in IngredientIds }

RECURSIVE SortedSeq(_)
SortedSeq(S) ==
  IF S = {} THEN <<>>
  ELSE LET m == CHOOSE x \in S : \A y \in S : x <= y
       IN  <<m>> \o SortedSeq(S \ {m})

KeyRank(k) == k[1] * 100 + k[2]

ActualTable(K, u) ==
  LET ks == SortedSeq({KeyRank(k) : k \in K})
  IN  [n \in DOMAIN ks |-> [date |-> ks[n] \div 100, ingredient |-> ks[n] % 100,
                           unit |-> "g", usage |-> u]]

\* Usage of 50 a day on one or two (date, ingredient) pairs, or a heavy week
\* (210 a day, more than any stock delivered) for one ingredient.
ActualTables ==
  { ActualTable(K, Units(50)) :
      K \in { X \in SUBSET ActualKeys : Cardinality(X) \in 1..2 } }
    \cup { ActualTable({ <<d, i>> : d \in ActualDays }, Units(210)) :
             i \in IngredientIds }

----------------------------------------------------------------------------
(* Helpers *)

Max(a, b) == IF a >= b THEN a ELSE b
Min(a, b) == IF a <= b THEN a ELSE b

Range(s) == { s[k] : k \in DOMAIN s }

RECURSIVE SumOver(_, _)
\* sum of f[x] over the finite set S
SumOver(S, f) ==
  IF S = {} THEN 0
  ELSE LET x == CHOOSE y \in S : TRUE IN f[x] + SumOver(S \ {x}, f)

----------------------------------------------------------------------------
(* Loaded tables *)

all_banks == bank_week1 \o bank_week2 \o bank_week3
bank == bank_week3

Init ==
  /\ \E w1 \in BoundedSeq(Transactions(Week1Lines), MaxTxn),
        w2 \in BoundedSeq(Transactions(Week2Lines), MaxTxn),
        w3 \in BoundedSeq(Transactions(Week3Lines), MaxTxn) :
       /\ Len(w1) + Len(w2) + Len(w3) <= MaxTxn
       /\ bank_week1 = w1 /\ bank_week2 = w2 /\ bank_week3 = w3
  /\ \/ actual = <<>> /\ forecast_df \in ForecastTables
     \/ actual \in ActualTables /\ forecast_df = <<>>
  /\ pc = "forecast"
  /\ forecast = <<>>
  /\ start_date = forecast_start
  /\ ingredients = <<>>
  /\ daily = <<>>
  /\ deliveries = {}
  /\ base_inventory = <<>>
  /\ current_inventory = <<>>
  /\ ing_pos = 1
  /\ visited = {}
  /\ reorder_rows = <<>>
  /\ reorder_plan = <<>>
  /\ rec_rows = <<>>
  /\ dynamic_cost = 0
  /\ recurring_cost = 0
  /\ savings = 0

----------------------------------------------------------------------------
(* Forecast Builder *)

ActualIngredients == SortedSeq({ actual[k].ingredient : k \in DOMAIN actual })

RECURSIVE SumUsage(_)
SumUsage(rows) ==
  IF rows = <<>> THEN 0 ELSE Head(rows).usage + SumUsage(Tail(rows))

\* actual.groupby("ingredient")["usage"].mean()
avg_usage(ing) ==
  LET rows == SelectSeq(actual, LAMBDA r : r.ingredient = ing)
  IN  SumUsage(rows) \div Len(rows)

forecast_dates == [k \in 1..(forecast_end - forecast_start + 1) |->
                     forecast_start + k - 1]

\* The forecast_records loop: date-major, one row per averaged ingredient.
SeasonalityRecords ==
  Flatten([k \in DOMAIN forecast_dates |->
             [n \in DOMAIN ActualIngredients |->
                [date |-> forecast_dates[k],
                 ingredient |-> ActualIngredients[n],
                 usage |-> (avg_usage(ActualIngredients[n])
                              * variation_factors[k]) \div 100]]])

SeasonalityForecast ==
  /\ pc = "forecast"
  /\ actual # <<>>
  /\ forecast' = SeasonalityRecords
  /\ pc' = "grid"
  /\ UNCHANGED <<inputs, horizon, daily, deliveries, base_inventory, current_inventory,
                 ing_pos, visited, reorder_rows, reorder_plan, rec_rows,
                 dynamic_cost, recurring_cost, savings>>

\* sorted(forecast_sample["date"].unique())[:7]
unique_dates ==
  LET all == SortedSeq({ forecast_df[k].date : k \in DOMAIN forecast_df })
  IN  SubSeq(all, 1, Min(7, Len(all)))

\* dict(zip(unique_dates, date_range(forecast_start, forecast_end)))
date_mapping(d) ==
  LET k == CHOOSE j \in DOMAIN unique_dates : unique_dates[j] = d
  IN  forecast_dates[k]

FallbackRecords ==
  LET kept == SelectSeq(forecast_df, LAMBDA r : r.date \in Range(unique_dates))
  IN  [k \in DOMAIN kept |->
         [date |-> date_mapping(kept[k].date),
          ingredient |-> kept[k].ingredient,
          usage |-> kept[k].pred_qty]]

FallbackForecast ==
  /\ pc = "forecast"
  /\ actual = <<>>
  /\ forecast' = FallbackRecords
  /\ pc' = "grid"
  /\ UNCHANGED <<inputs, horizon, daily, deliveries, base_inventory, current_inventory,
                 ing_pos, visited, reorder_rows, reorder_plan, rec_rows,
                 dynamic_cost, recurring_cost, savings>>

----------------------------------------------------------------------------
(* Units and latest buy (last-week bank file only) *)

BankRowsOf(ing) == { k \in DOMAIN bank : bank[k].ingredient = ing }

\* bank.groupby("ingredient")["unit"].first()
ingredient_units(ing) ==
  IF BankRowsOf(ing) = {} THEN <<>>
  ELSE LET k == CHOOSE j \in BankRowsOf(ing) : \A m \in BankRowsOf(ing) : j <= m
       IN  <<bank[k].unit>>

\* any(x in ingredient for x in ["Patty", "Filling"]), over the names in use
ContainsPattyOrFilling(name) == name \in {"Beef Patty", "Apple Filling"}

infer_unit(ing) ==
  IF ingredient_units(ing) # <<>> THEN ingredient_units(ing)[1]
  ELSE IF \/ ContainsPattyOrFilling(IngredientName[ing])
          \/ IngredientName[ing] \in
               {"Lettuce", "Pickles", "Onion", "Potatoes", "Chicken Nugget",
                "Fish Fillet"} THEN "g"
  ELSE IF IngredientName[ing] \in {"Milk", "Ketchup", "Mustard", "Mayonnaise"}
       THEN "ml"
  ELSE "unit"

\* variant: tail(1) of the file as loaded, without the sort by txn_date
LastBankRowIndex(ing) ==
  CHOOSE j \in BankRowsOf(ing) : \A m \in BankRowsOf(ing) : m <= j

\* Index in bank of the row that sort_values(["ingredient","txn_date"]) followed
\* by groupby.tail(1) keeps: the latest txn_date, the later row on a tie.
LatestBuyIndex(ing) ==
  CHOOSE j \in BankRowsOf(ing) :
    \A m \in BankRowsOf(ing) :
      \/ bank[m].txn_date < bank[j].txn_date
      \/ bank[m].txn_date = bank[j].txn_date /\ m <= j

InLatestBuy(ing) == BankRowsOf(ing) # {}

latest_buy(ing) ==
  LET r == bank[LatestBuyIndex(ing)]
  IN  [unit |-> r.unit, unit_cost_gbp |-> r.unit_cost_gbp,
       merchant |-> r.merchant, last_order_date |-> r.txn_date,
       last_order_qty |-> r.qty]

----------------------------------------------------------------------------
(* Daily usage grid and delivery ledger *)

\* forecast["date"].min()
ForecastMinDate ==
  CHOOSE d \in { forecast[k].date : k \in DOMAIN forecast } :
    \A k \in DOMAIN forecast : d <= forecast[k].date
end_date == start_date + (RECURRENCE_DAYS - 1)
DateRange(first, last) == [k \in 1..(last - first + 1) |-> first + k - 1]
dates == DateRange(start_date, end_date)

IngredientSet ==
  { forecast[k].ingredient : k \in DOMAIN forecast }
    \cup { actual[k].ingredient : k \in DOMAIN actual }
    \cup { all_banks[k].ingredient : k \in DOMAIN all_banks }

SortedIngredients == SortedSeq(IngredientSet)

\* actual.groupby("ingredient")["usage"].median(); <<>> when the ingredient
\* has no actual usage.
typical_daily(ing) ==
  LET rows == SelectSeq(actual, LAMBDA r : r.ingredient = ing)
      n    == Len(rows)
      vals == [k \in 1..n |-> rows[k].usage]
      \* k-th smallest value, counting repetitions
      kth(k) == CHOOSE v \in Range(vals) :
                  /\ Cardinality({ j \in 1..n : vals[j] < v }) < k
                  /\ Cardinality({ j \in 1..n : vals[j] <= v }) >= k
  IN  IF n = 0 THEN <<>>
      ELSE IF n % 2 = 1 THEN <<kth((n + 1) \div 2)>>
      ELSE <<(kth(n \div 2) + kth(n \div 2 + 1)) \div 2>>

fallback_usage(row) ==
  IF row.forecast_usage # <<>> THEN row.forecast_usage[1]
  ELSE IF row.actual_usage # <<>> THEN row.actual_usage[1]
  ELSE IF typical_daily(row.ingredient) # <<>> THEN typical_daily(row.ingredient)[1]
  ELSE 0

\* daily.merge(right, on=["date","ingredient"], how="left") for a right table
\* with a usage column: a left row with no match keeps NaN, a left row with
\* several matches is repeated once per match.
RECURSIVE Matched(_, _, _)
Matched(row, m, col) ==
  IF m = <<>> THEN <<>>
  ELSE <<[row EXCEPT ![col] = <<Head(m).usage>>]>> \o Matched(row, Tail(m), col)

RECURSIVE MergeLeft(_, _, _)
MergeLeft(left, right, col) ==
  IF left = <<>> THEN <<>>
  ELSE LET row == Head(left)
           m   == SelectSeq(right, LAMBDA r : r.date = row.date
                                              /\ r.ingredient = row.ingredient)
       IN  (IF m = <<>> THEN << [row EXCEPT ![col] = <<>>] >>
            ELSE Matched(row, m, col))
             \o MergeLeft(Tail(left), right, col)

\* MultiIndex.from_product([dates, ingredients])
GridIndex(ds, ings) ==
  Flatten([k \in DOMAIN ds |->
             [n \in DOMAIN ings |->
                [date |-> ds[k], ingredient |-> ings[n],
                 forecast_usage |-> <<>>, actual_usage |-> <<>>,
                 daily_usage |-> 0, delivery_qty |-> 0,
                 planned_delivery_qty |-> 0]]])

\* all_banks.groupby(["delivery_date","ingredient"])["qty"].sum()
DeliveryKeys ==
  { <<all_banks[k].txn_date + LEAD_TIME_DAYS, all_banks[k].ingredient>> :
      k \in DOMAIN all_banks }

RECURSIVE SumQty(_)
SumQty(rows) ==
  IF rows = <<>> THEN 0 ELSE Head(rows).qty + SumQty(Tail(rows))

Deliveries ==
  { [date |-> key[1], ingredient |-> key[2],
     delivery_qty |->
       SumQty(SelectSeq(all_banks,
                        LAMBDA t : t.txn_date + LEAD_TIME_DAYS = key[1]
                                   /\ t.ingredient = key[2]))] :
      key \in DeliveryKeys }

\* deliveries as a lookup; 0.0 where the ledger has no entry
DeliveryQty(ledger, d, ing) ==
  IF \E e \in ledger : e.date = d /\ e.ingredient = ing
  THEN (CHOOSE e \in ledger : e.date = d /\ e.ingredient = ing).delivery_qty
  ELSE 0

RECURSIVE WithDailyUsage(_)
\* daily["daily_usage"] = daily.apply(fallback_usage, axis=1)
WithDailyUsage(rows) ==
  IF rows = <<>> THEN <<>>
  ELSE <<[Head(rows) EXCEPT !.daily_usage = fallback_usage(Head(rows))]>>
         \o WithDailyUsage(Tail(rows))

RECURSIVE WithDeliveryQty(_, _)
\* daily.merge(deliveries, how="left") and fillna(0.0); the ledger has one
\* entry per (date, ingredient)
WithDeliveryQty(rows, ledger) ==
  IF rows = <<>> THEN <<>>
  ELSE <<[Head(rows) EXCEPT
            !.delivery_qty = DeliveryQty(ledger, Head(rows).date,
                                         Head(rows).ingredient)]>>
         \o WithDeliveryQty(Tail(rows), ledger)

BuildDailyGrid ==
  /\ pc = "grid"
  /\ LET first        == ForecastMinDate
         ings         == SortedIngredients
         index        == GridIndex(DateRange(first, first + (RECURRENCE_DAYS - 1)), ings)
         withForecast == MergeLeft(index, forecast, "forecast_usage")
         withActual   == IF actual # <<>>
                         THEN MergeLeft(withForecast, actual, "actual_usage")
                         ELSE withForecast
         withUsage    == WithDailyUsage(withActual)
         ledger       == Deliveries
     IN  /\ start_date' = first
         /\ ingredients' = ings
         /\ deliveries' = ledger
         /\ daily' = WithDeliveryQty(withUsage, ledger)
  /\ pc' = "inventory"
  /\ UNCHANGED <<inputs, forecast, base_inventory, current_inventory,
                 ing_pos, visited, reorder_rows, reorder_plan, rec_rows,
                 dynamic_cost, recurring_cost, savings>>

----------------------------------------------------------------------------
(* Inventory Estimator *)

\* actual.set_index(["date","ingredient"])["usage"].to_dict(): the last row of
\* a key wins; 0.0 where there is none
actual_lookup(d, ing) ==
  LET ks == { k \in DOMAIN actual : actual[k].date = d /\ actual[k].ingredient = ing }
  IN  IF ks = {} THEN 0
      ELSE actual[CHOOSE k \in ks : \A m \in ks : m <= k].usage

\* variant: an order delivered on asof_date itself counts as not yet arrived
NotYetArrivedOnTheDay(last_delivery_date, asof_date) ==
  last_delivery_date >= asof_date

\* whether the last order counts as not yet arrived on the morning of asof_date
NotYetArrived(last_delivery_date, asof_date) == last_delivery_date > asof_date

\* variant: the replay starts on the day after last_delivery_date
SimulateFromNextDay(inv, d, asof_date, ing) ==
  inv + SumOver((d + 1)..(asof_date - 1),
                [x \in (d + 1)..(asof_date - 1) |->
                   DeliveryQty(deliveries, x, ing) - actual_lookup(x, ing)])

RECURSIVE SimulateInventory(_, _, _, _)
\* the sim_dates loop, d running from last_delivery_date to asof_date - 1
SimulateInventory(inv, d, asof_date, ing) ==
  IF d > asof_date - 1 THEN inv
  ELSE SimulateInventory(inv + DeliveryQty(deliveries, d, ing) - actual_lookup(d, ing),
                         d + 1, asof_date, ing)

compute_current_inventory(asof_date) ==
  [ing \in Range(ingredients) |->
     IF ~InLatestBuy(ing) THEN 0
     ELSE LET last_delivery_date == latest_buy(ing).last_order_date + LEAD_TIME_DAYS
          IN  IF NotYetArrived(last_delivery_date, asof_date) THEN 0
              ELSE SimulateInventory(latest_buy(ing).last_order_qty,
                                     last_delivery_date, asof_date, ing)]

\* variant: the factor grows by 0.10 per position
variation_factor_tenths(i) == 30 + (i % 10) * 10

\* 0.3 + (i % 10) * 0.12 in hundredths, i the 0-based position of the ingredient
variation_factor(i) == 30 + (i % 10) * 12

\* variant: the scaled balance without the clamp at 0
VariedInventoryUnclamped(base, i) == (base * variation_factor(i)) \div 100

\* max(0, base * variation_factor)
VariedInventory(base, i) ==
  IF base * variation_factor(i) < 0 THEN 0
  ELSE (base * variation_factor(i)) \div 100

PositionOf(ing) == CHOOSE n \in DOMAIN ingredients : ingredients[n] = ing

ComputeCurrentInventory ==
  /\ pc = "inventory"
  /\ LET base == compute_current_inventory(start_date)
     IN  /\ base_inventory' = base
         /\ current_inventory' =
              [ing \in DOMAIN base |->
                 VariedInventory(base[ing], PositionOf(ing) - 1)]
  /\ pc' = "prepare"
  /\ UNCHANGED <<inputs, horizon, forecast, daily, deliveries,
                 ing_pos, visited, reorder_rows, reorder_plan, rec_rows,
                 dynamic_cost, recurring_cost, savings>>

----------------------------------------------------------------------------
(* Reorder Planner *)

\* daily.sort_values(["ingredient","date"]): rows of equal key keep their order
RowKeyBefore(a, b) ==
  \/ a.ingredient < b.ingredient
  \/ a.ingredient = b.ingredient /\ a.date < b.date

RECURSIVE InsertRow(_, _)
InsertRow(r, s) ==
  IF s = <<>> THEN <<r>>
  ELSE IF RowKeyBefore(r, Head(s)) THEN <<r>> \o s
  ELSE <<Head(s)>> \o InsertRow(r, Tail(s))

RECURSIVE SortDaily(_)
SortDaily(d) ==
  IF d = <<>> THEN <<>>
  ELSE InsertRow(d[Len(d)], SortDaily(SubSeq(d, 1, Len(d) - 1)))

RECURSIVE WithPlannedZero(_)
\* daily["planned_delivery_qty"] = 0.0
WithPlannedZero(rows) ==
  IF rows = <<>> THEN <<>>
  ELSE <<[Head(rows) EXCEPT !.planned_delivery_qty = 0]>>
         \o WithPlannedZero(Tail(rows))

PreparePlanner ==
  /\ pc = "prepare"
  /\ daily' = WithPlannedZero(SortDaily(daily))
  /\ reorder_rows' = <<>>
  /\ ing_pos' = 1
  /\ visited' = {}
  /\ pc' = "plan"
  /\ UNCHANGED <<inputs, horizon, forecast, deliveries, base_inventory, current_inventory,
                 reorder_plan, rec_rows, dynamic_cost, recurring_cost, savings>>

\* current_inventory.get(ing, 0.0)
start_inv_of(ing) ==
  IF ing \in DOMAIN current_inventory THEN current_inventory[ing] ELSE 0

\* variant: an inventory of exactly zero counts as a stockout
IsStockoutOrEmpty(inv) == inv <= 0

IsStockout(inv) == inv < 0

RECURSIVE FindStockout(_, _, _, _)
\* the first loop over df: <<d>> for the first date whose running inventory is
\* negative, <<>> (None) when no date is
FindStockout(df, i, inv, stockout_date) ==
  IF i > Len(df) THEN stockout_date
  ELSE LET inv2 == inv + df[i].delivery_qty - df[i].daily_usage
       IN  FindStockout(df, i + 1, inv2,
                        IF IsStockout(inv2) /\ stockout_date = <<>>
                        THEN <<df[i].date>> ELSE stockout_date)

\* variant: the order is placed a recurrence period before the stockout
OrderDateWeekEarlier(stockout_date) == stockout_date - RECURRENCE_DAYS

OrderDate(stockout_date) == stockout_date - LEAD_TIME_DAYS
DeliveryDate(order_date) == order_date + LEAD_TIME_DAYS

RECURSIVE InvThroughDeliveryDay(_, _, _, _)
\* variant: the replay also takes in the delivery date itself
InvThroughDeliveryDay(df, i, inv, delivery_date) ==
  IF i > Len(df) THEN inv
  ELSE IF df[i].date <= delivery_date
       THEN InvThroughDeliveryDay(df, i + 1,
                                  inv + df[i].delivery_qty - df[i].daily_usage,
                                  delivery_date)
       ELSE inv

RECURSIVE InvAtDeliveryMorning(_, _, _, _)
\* the second loop over df: stops at the first row not before delivery_date
InvAtDeliveryMorning(df, i, inv, delivery_date) ==
  IF i > Len(df) THEN inv
  ELSE IF df[i].date < delivery_date
       THEN InvAtDeliveryMorning(df, i + 1,
                                 inv + df[i].delivery_qty - df[i].daily_usage,
                                 delivery_date)
       ELSE inv

RECURSIVE SumDailyUsage(_)
SumDailyUsage(rows) ==
  IF rows = <<>> THEN 0 ELSE Head(rows).daily_usage + SumDailyUsage(Tail(rows))

\* variant: the need counts only the dates after the delivery date
RemainingNeedAfterDelivery(df, delivery_date) ==
  SumDailyUsage(SelectSeq(df, LAMBDA r : r.date > delivery_date))

\* df[df["date"] >= delivery_date]["daily_usage"].sum()
RemainingNeed(df, delivery_date) ==
  SumDailyUsage(SelectSeq(df, LAMBDA r : r.date >= delivery_date))

\* variant: the difference taken the wrong way round and not clamped
OrderQtySignSlip(remaining_need, inv_at_delivery_morning) ==
  Max(0, inv_at_delivery_morning) - remaining_need

OrderQty(remaining_need, inv_at_delivery_morning) ==
  Max(0, remaining_need - Max(0, inv_at_delivery_morning))

\* round(x / m) * m for x >= 0, ties to the even multiple (Python's round)
RoundHalfEven(x, m) ==
  LET q == x \div m
      r == x % m
  IN  IF 2 * r < m THEN q * m
      ELSE IF 2 * r > m THEN (q + 1) * m
      ELSE IF q % 2 = 0 THEN q * m ELSE (q + 1) * m

\* round(order_qty, 2), in ticks
RoundQty(order_qty) == RoundHalfEven(order_qty, TicksPerUnit \div 100)

\* round(order_qty * unit_cost, 2), in pence
EstimatedCost(order_qty, unit_cost) ==
  RoundHalfEven(order_qty * unit_cost, TicksPerUnit) \div TicksPerUnit

RecUnit(ing) ==
  IF InLatestBuy(ing) THEN latest_buy(ing).unit
  ELSE IF ingredient_units(ing) # <<>> THEN ingredient_units(ing)[1]
  ELSE infer_unit(ing)
RecUnitCost(ing) == IF InLatestBuy(ing) THEN latest_buy(ing).unit_cost_gbp ELSE 0
RecSupplier(ing) == IF InLatestBuy(ing) THEN latest_buy(ing).merchant ELSE "Unknown"

\* the part of the loop body after "if stockout_date is None: continue"
Recommendation(ing, df, start_inv, stockout_date) ==
  LET order_date    == OrderDate(stockout_date)
      delivery_date == DeliveryDate(order_date)
      inv_at_delivery_morning == InvAtDeliveryMorning(df, 1, start_inv, delivery_date)
      remaining_need == RemainingNeed(df, delivery_date)
      order_qty == OrderQty(remaining_need, inv_at_delivery_morning)
  IN  [ingredient |-> ing,
       supplier |-> RecSupplier(ing),
       order_date |-> order_date,
       delivery_date |-> delivery_date,
       order_qty |-> RoundQty(order_qty),
       unit |-> RecUnit(ing),
       unit_cost_gbp |-> RecUnitCost(ing),
       estimated_cost_gbp |-> EstimatedCost(order_qty, RecUnitCost(ing)),
       stockout_date_if_no_order |-> stockout_date,
       planned_qty |-> order_qty]

RECURSIVE RecordPlannedDeliveryFromDate(_, _, _, _)
\* variant: the quantity is added on every row of the ingredient from the
\* delivery date on
RecordPlannedDeliveryFromDate(d, ing, delivery_date, order_qty) ==
  IF d = <<>> THEN <<>>
  ELSE <<IF Head(d).ingredient = ing /\ Head(d).date >= delivery_date
         THEN [Head(d) EXCEPT !.planned_delivery_qty = @ + order_qty]
         ELSE Head(d)>>
         \o RecordPlannedDeliveryFromDate(Tail(d), ing, delivery_date, order_qty)

RECURSIVE RecordPlannedDelivery(_, _, _, _)
\* daily.loc[(ingredient == ing) & (date == delivery_date), "planned_delivery_qty"] += order_qty
RecordPlannedDelivery(d, ing, delivery_date, order_qty) ==
  IF d = <<>> THEN <<>>
  ELSE <<IF Head(d).ingredient = ing /\ Head(d).date = delivery_date
         THEN [Head(d) EXCEPT !.planned_delivery_qty = @ + order_qty]
         ELSE Head(d)>>
         \o RecordPlannedDelivery(Tail(d), ing, delivery_date, order_qty)

\* variant: the loop runs over the ingredient column of the grid
PlannerOrderPerRow == [k \in DOMAIN daily |-> daily[k].ingredient]

\* the ingredients the planner loop visits, in order
PlannerOrder == ingredients

\* variant: df also takes, as deliveries, what the planner has recorded for
\* any ingredient on the same date
PlannerRowsSharingPlanned(grid, ing) ==
  LET planned(d) ==
        SumOver({ k \in DOMAIN grid : grid[k].date = d },
                [k \in DOMAIN grid |-> grid[k].planned_delivery_qty])
      own == SelectSeq(grid, LAMBDA r : r.ingredient = ing)
  IN  [k \in DOMAIN own |->
         [own[k] EXCEPT !.delivery_qty = @ + planned(own[k].date)]]

\* df = daily[daily["ingredient"] == ing]
PlannerRows(grid, ing) == SelectSeq(grid, LAMBDA r : r.ingredient = ing)

\* the body of the loop for one ingredient, as a function of the grid and of
\* the rows collected so far
StepResult(grid, rows, ing) ==
  LET df        == PlannerRows(grid, ing)
      start_inv == start_inv_of(ing)
      stockout  == FindStockout(df, 1, start_inv, <<>>)
  IN  IF stockout = <<>>
      THEN [daily |-> grid, reorder_rows |-> rows]
      ELSE LET rec == Recommendation(ing, df, start_inv, stockout[1])
           IN  [daily |-> RecordPlannedDelivery(grid, ing, rec.delivery_date,
                                                rec.planned_qty),
                reorder_rows |->
                  Append(rows, [f \in DOMAIN rec \ {"planned_qty"} |-> rec[f]])]

PlanStep(ing) ==
  LET result == StepResult(daily, reorder_rows, ing)
  IN  /\ daily' = result.daily
      /\ reorder_rows' = result.reorder_rows
      /\ visited' = visited \cup {ing}

\* one iteration of "for ing in ingredients"
PlanIngredient ==
  /\ pc = "plan"
  /\ ing_pos <= Len(PlannerOrder)
  /\ PlanStep(PlannerOrder[ing_pos])
  /\ ing_pos' = ing_pos + 1
  /\ UNCHANGED <<inputs, horizon, pc, forecast, deliveries, base_inventory,
                 current_inventory, reorder_plan, rec_rows,
                 dynamic_cost, recurring_cost, savings>>

\* the same loop body run for any ingredient not yet visited: the steps of
\* tasks that share out the ingredients, in whatever order they are scheduled
PlanAnyIngredient ==
  /\ pc = "plan"
  /\ \E ing \in Range(ingredients) \ visited : PlanStep(ing)
  /\ ing_pos' = ing_pos + 1
  /\ UNCHANGED <<inputs, horizon, pc, forecast, deliveries, base_inventory,
                 current_inventory, reorder_plan, rec_rows,
                 dynamic_cost, recurring_cost, savings>>

\* variant: both sort keys ascending
SortsBeforeCostAscending(a, b) ==
  \/ a.order_date < b.order_date
  \/ a.order_date = b.order_date /\ a.estimated_cost_gbp < b.estimated_cost_gbp

\* whether row a must come before row b under
\* sort_values(["order_date","estimated_cost_gbp"], ascending=[True, False])
SortsBefore(a, b) ==
  \/ a.order_date < b.order_date
  \/ a.order_date = b.order_date /\ a.estimated_cost_gbp > b.estimated_cost_gbp

RECURSIVE InsertSorted(_, _)
InsertSorted(r, s) ==
  IF s = <<>> THEN <<r>>
  ELSE IF SortsBefore(Head(s), r) \/ ~SortsBefore(r, Head(s))
       THEN <<Head(s)>> \o InsertSorted(r, Tail(s))
       ELSE <<r>> \o s

RECURSIVE SortRows(_)
SortRows(rows) ==
  IF rows = <<>> THEN <<>>
  ELSE InsertSorted(rows[Len(rows)], SortRows(SubSeq(rows, 1, Len(rows) - 1)))

SortReorderPlan ==
  /\ pc = "plan"
  /\ ing_pos > Len(PlannerOrder)
  /\ reorder_plan' = SortRows(reorder_rows)
  /\ pc' = "baseline"
  /\ UNCHANGED <<inputs, horizon, forecast, daily, deliveries, base_inventory,
                 current_inventory, ing_pos, visited, reorder_rows, rec_rows,
                 dynamic_cost, recurring_cost, savings>>

----------------------------------------------------------------------------
(* Baseline Comparator *)

\* start_date <= delivery_date <= end_date for the naive order placed at start_date
NaiveOrderLands == 
  /\ start_date <= start_date + LEAD_TIME_DAYS
  /\ start_date + LEAD_TIME_DAYS <= end_date

\* the rec_rows loop; cost_gbp in millionths of a pound (ticks x pence)
RecurringRows ==
  LET rows(n) ==
        IF InLatestBuy(ingredients[n]) /\ NaiveOrderLands
        THEN << [ingredient |-> ingredients[n],
                 qty |-> latest_buy(ingredients[n]).last_order_qty,
                 unit |-> latest_buy(ingredients[n]).unit,
                 cost_gbp |-> latest_buy(ingredients[n]).last_order_qty
                                * latest_buy(ingredients[n]).unit_cost_gbp] >>
        ELSE <<>>
  IN  Flatten([n \in DOMAIN ingredients |-> rows(n)])

RECURSIVE SumField(_, _)
SumField(rows, f) ==
  IF rows = <<>> THEN 0 ELSE Head(rows)[f] + SumField(Tail(rows), f)

\* variant: the sum is taken over the unit_cost_gbp column
DynamicCostFromUnitCost(plan) == SumField(plan, "unit_cost_gbp")

\* reorder_plan["estimated_cost_gbp"].sum(), in pence
DynamicCost(plan) == SumField(plan, "estimated_cost_gbp")

BaselineComparison ==
  /\ pc = "baseline"
  /\ rec_rows' = RecurringRows
  /\ dynamic_cost' = DynamicCost(reorder_plan)
  /\ recurring_cost' = SumField(RecurringRows, "cost_gbp")
  \* savings in millionths of a pound
  /\ savings' = SumField(RecurringRows, "cost_gbp")
                  - DynamicCost(reorder_plan) * TicksPerUnit
  /\ pc' = "done"
  /\ UNCHANGED <<inputs, horizon, forecast, daily, deliveries, base_inventory,
                 current_inventory, ing_pos, visited, reorder_rows, reorder_plan>>

----------------------------------------------------------------------------

Next ==
  \/ SeasonalityForecast
  \/ FallbackForecast
  \/ BuildDailyGrid
  \/ ComputeCurrentInventory
  \/ PreparePlanner
  \/ PlanIngredient
  \/ SortReorderPlan
  \/ BaselineComparison

Spec == Init /\ [][Next]_vars

\* The run with the order of the planner steps left open.
NextAnyOrder ==
  \/ SeasonalityForecast
  \/ FallbackForecast
  \/ BuildDailyGrid
  \/ ComputeCurrentInventory
  \/ PreparePlanner
  \/ PlanAnyIngredient
  \/ SortReorderPlan
  \/ BaselineComparison

SpecAnyOrder == Init /\ [][NextAnyOrder]_vars

----------------------------------------------------------------------------
(* Properties.  The definitions below restate the replays over the grid as  *)
(* sums over row positions; they do not use the planner's operators.        *)

PlanningDone == pc \in {"baseline", "done"}

IngredientsSeen == Range(ingredients)

\* positions in the grid of the rows of an ingredient, in grid order
RowsOf(ing) == { k \in DOMAIN daily : daily[k].ingredient = ing }

Recommended(ing) == \E n \in DOMAIN reorder_rows : reorder_rows[n].ingredient = ing

\* running inventory after row k when nothing is ordered
DoNothingAfter(ing, k) ==
  start_inv_of(ing)
    + SumOver({ j \in RowsOf(ing) : j <= k },
              [j \in DOMAIN daily |-> daily[j].delivery_qty - daily[j].daily_usage])

\* running inventory after row k with the planned deliveries
PlannedAfter(ing, k) ==
  start_inv_of(ing)
    + SumOver({ j \in RowsOf(ing) : j <= k },
              [j \in DOMAIN daily |->
                 daily[j].delivery_qty + daily[j].planned_delivery_qty
                   - daily[j].daily_usage])

\* C1: with the planned deliveries in the grid, the day-by-day replay of every
\* ingredient from its starting inventory is never negative.
C1_NeverNegativeWithPlan ==
  PlanningDone =>
    \A ing \in IngredientsSeen : \A k \in RowsOf(ing) : PlannedAfter(ing, k) >= 0

\* C1 witness: an ingredient that runs out when nothing is ordered has its
\* planned delivery in the grid.
C1_Witness ==
  /\ pc = "done"
  /\ \E ing \in IngredientsSeen :
       /\ \E k \in RowsOf(ing) : DoNothingAfter(ing, k) < 0
       /\ \E k \in RowsOf(ing) : daily[k].planned_delivery_qty > 0

\* C2: no two recommendations, collected or sorted, are for the same ingredient.
C2_OnePerIngredient ==
  /\ \A m, n \in DOMAIN reorder_rows :
       m # n => reorder_rows[m].ingredient # reorder_rows[n].ingredient
  /\ \A m, n \in DOMAIN reorder_plan :
       m # n => reorder_plan[m].ingredient # reorder_plan[n].ingredient

\* C2 witness: a finished run that recommends an order for each of two
\* ingredients.
C2_Witness == pc = "done" /\ Len(reorder_plan) = 2

\* C3: every recommendation is delivered LEAD_TIME_DAYS after its order date,
\* on the stockout date it records, which is a date of the horizon.
C3_DeliveryOnStockoutDate ==
  \A n \in DOMAIN reorder_rows :
    LET r == reorder_rows[n]
    IN  /\ r.delivery_date = r.order_date + LEAD_TIME_DAYS
        /\ r.delivery_date = r.stockout_date_if_no_order
        /\ r.delivery_date \in start_date..end_date

\* C3 witness: a recommendation whose order date is before the horizon starts.
C3_Witness ==
  \E n \in DOMAIN reorder_rows : reorder_rows[n].order_date < start_date

\* C4: an ingredient is recommended exactly when its do-nothing replay goes
\* negative on some row, and the recorded stockout date is the date of the
\* first such row.
C4_RecommendedIffStockout ==
  PlanningDone =>
    \A ing \in IngredientsSeen :
      LET neg == { k \in RowsOf(ing) : DoNothingAfter(ing, k) < 0 }
      IN  /\ Recommended(ing) <=> neg # {}
          /\ \A n \in DOMAIN reorder_rows :
               reorder_rows[n].ingredient = ing =>
                 \E k \in neg :
                   /\ \A j \in neg : k <= j
                   /\ reorder_rows[n].stockout_date_if_no_order = daily[k].date

\* C4 witness: one ingredient with usage that is covered and has no
\* recommendation, another that runs out after the first day of the horizon.
C4_Witness ==
  /\ pc = "done"
  /\ \E ing \in IngredientsSeen :
       /\ ~Recommended(ing)
       /\ \E k \in RowsOf(ing) : daily[k].daily_usage > 0
  /\ \E n \in DOMAIN reorder_rows :
       reorder_rows[n].stockout_date_if_no_order > start_date

\* inventory on the morning of date d: the replay over the rows before d
MorningInventory(ing, d) ==
  start_inv_of(ing)
    + SumOver({ j \in RowsOf(ing) : daily[j].date < d },
              [j \in DOMAIN daily |-> daily[j].delivery_qty - daily[j].daily_usage])

\* usage of the rows on or after date d
NeedFrom(ing, d) ==
  SumOver({ j \in RowsOf(ing) : daily[j].date >= d },
          [j \in DOMAIN daily |-> daily[j].daily_usage])

\* max(0, remaining_need - max(0, inventory_at_delivery_morning)), exact
SizedQty(r) ==
  LET inv  == MorningInventory(r.ingredient, r.delivery_date)
      need == NeedFrom(r.ingredient, r.delivery_date)
      held == IF inv > 0 THEN inv ELSE 0
  IN  IF need - held > 0 THEN need - held ELSE 0

\* x is y rounded to a multiple of m
IsRounded(x, y, m) == x % m = 0 /\ 2 * (x - y) <= m /\ 2 * (y - x) <= m

\* the literal scenario of the claim: starting inventory 120, usage 50 on each
\* of the 7 days, no deliveries, unit cost 0.50
IsBunScenario(ing) ==
  /\ start_inv_of(ing) = Units(120)
  /\ Cardinality(RowsOf(ing)) = RECURRENCE_DAYS
  /\ \A k \in RowsOf(ing) :
       daily[k].daily_usage = Units(50) /\ daily[k].delivery_qty = 0
  /\ InLatestBuy(ing) /\ latest_buy(ing).unit_cost_gbp = 50

BunScenarioResult ==
  PlanningDone =>
    \A ing \in IngredientsSeen :
      IsBunScenario(ing) =>
        \E n \in DOMAIN reorder_rows :
          LET r == reorder_rows[n]
          IN  /\ r.ingredient = ing
              /\ r.stockout_date_if_no_order = start_date + 2
              /\ r.order_date = start_date - 1
              /\ MorningInventory(ing, r.delivery_date) = Units(20)
              /\ r.order_qty = Units(230)
              /\ r.estimated_cost_gbp = 11500

\* C5 as claimed: the recorded order_qty is exactly the sizing formula and the
\* estimated cost exactly order_qty x unit_cost (both sides in ticks x pence).
C5_ExactSizing ==
  /\ \A n \in DOMAIN reorder_rows :
       LET r == reorder_rows[n]
       IN  /\ r.order_qty = SizedQty(r)
           /\ r.estimated_cost_gbp * TicksPerUnit = r.order_qty * r.unit_cost_gbp
  /\ BunScenarioResult

\* C5 amended: the recorded order_qty is the sizing formula rounded to two
\* decimals, the estimated cost is the unrounded quantity x unit_cost rounded
\* to two decimals, and the literal scenario gives 230 and 115.00.
C5_RoundedSizing ==
  /\ \A n \in DOMAIN reorder_rows :
       LET r == reorder_rows[n]
       IN  /\ IsRounded(r.order_qty, SizedQty(r), TicksPerUnit \div 100)
           /\ IsRounded(r.estimated_cost_gbp * TicksPerUnit,
                        SizedQty(r) * r.unit_cost_gbp, TicksPerUnit)
  /\ BunScenarioResult

\* C5 witness: the literal scenario has run to the end.
C5_Witness ==
  pc = "done" /\ \E ing \in IngredientsSeen : IsBunScenario(ing)

\* C6: no recommendation has a negative order quantity.
C6_OrderQtyNonNegative ==
  \A n \in DOMAIN reorder_rows : reorder_rows[n].order_qty >= 0

\* C6 witness: a recommendation for an ingredient that still had stock on the
\* morning of the delivery.
C6_Witness ==
  \E n \in DOMAIN reorder_rows :
    MorningInventory(reorder_rows[n].ingredient, reorder_rows[n].delivery_date) > 0

\* C7: adjacent entries of the final list are in order_date order, and in
\* descending estimated cost where the order dates are equal.
C7_PlanSorted ==
  PlanningDone =>
    \A n \in 1..(Len(reorder_plan) - 1) :
      \/ reorder_plan[n].order_date < reorder_plan[n + 1].order_date
      \/ /\ reorder_plan[n].order_date = reorder_plan[n + 1].order_date
         /\ reorder_plan[n].estimated_cost_gbp >= reorder_plan[n + 1].estimated_cost_gbp

\* C7 witness: two recommendations with the same order date that the sort had
\* to swap, the dearer one first.
C7_Witness ==
  /\ pc = "done"
  /\ Len(reorder_plan) = 2
  /\ reorder_plan # reorder_rows
  /\ reorder_plan[1].order_date = reorder_plan[2].order_date
  /\ reorder_plan[1].estimated_cost_gbp > reorder_plan[2].estimated_cost_gbp

\* positions in a table of purchase lines of the latest lines of an ingredient
LatestIn(table, ing) ==
  { k \in DOMAIN table :
      /\ table[k].ingredient = ing
      /\ \A m \in DOMAIN table :
           table[m].ingredient = ing => table[m].txn_date <= table[k].txn_date }

\* the recommendation carries supplier, unit and unit cost of a latest line of
\* the table when the table has a line for the ingredient, and "Unknown" and
\* cost 0 (so estimated cost 0) exactly when it has none
CarriesLatestOf(table, r) ==
  /\ LatestIn(table, r.ingredient) # {} =>
       \E k \in LatestIn(table, r.ingredient) :
         /\ r.supplier = table[k].merchant
         /\ r.unit = table[k].unit
         /\ r.unit_cost_gbp = table[k].unit_cost_gbp
  /\ (r.supplier = "Unknown" /\ r.unit_cost_gbp = 0)
       <=> LatestIn(table, r.ingredient) = {}
  /\ LatestIn(table, r.ingredient) = {} => r.estimated_cost_gbp = 0

\* C8 as claimed: supplier, unit and unit cost come from the most recent
\* transaction of the whole purchase history.
C8_LatestOfHistory ==
  \A n \in DOMAIN reorder_rows : CarriesLatestOf(all_banks, reorder_rows[n])

\* C8 amended: they come from the most recent transaction of the last-week
\* bank file, and the fallback applies exactly when that file has none.
C8_LatestOfLastWeek ==
  \A n \in DOMAIN reorder_rows : CarriesLatestOf(bank_week3, reorder_rows[n])

\* C8 witness: a recommendation for an ingredient bought from two suppliers in
\* the last week, the later purchase first in the file.
C8_Witness ==
  \E n \in DOMAIN reorder_rows :
    \E k, m \in DOMAIN bank_week3 :
      /\ bank_week3[k].ingredient = reorder_rows[n].ingredient
      /\ bank_week3[m].ingredient = reorder_rows[n].ingredient
      /\ k < m
      /\ bank_week3[k].txn_date > bank_week3[m].txn_date
      /\ bank_week3[k].merchant # bank_week3[m].merchant

\* sum of last_order_qty x unit_cost over the ingredients that have a line in
\* the table, taken from a latest line, when the naive order lands in the horizon
BaselineOver(table) ==
  SumOver({ ing \in IngredientsSeen :
              /\ LatestIn(table, ing) # {}
              /\ start_date + LEAD_TIME_DAYS >= start_date
              /\ start_date + LEAD_TIME_DAYS <= end_date },
          [ing \in IngredientsSeen |->
             LET k == CHOOSE j \in LatestIn(table, ing) :
                        \A m \in LatestIn(table, ing) : m <= j
             IN  table[k].qty * table[k].unit_cost_gbp])

CostComparisonOver(table) ==
  pc = "done" =>
    /\ dynamic_cost =
         SumOver(DOMAIN reorder_rows,
                 [n \in DOMAIN reorder_rows |-> reorder_rows[n].estimated_cost_gbp])
    /\ recurring_cost = BaselineOver(table)
    /\ savings = recurring_cost - dynamic_cost * TicksPerUnit

\* C9 as claimed: the baseline counts every ingredient with transaction history.
C9_BaselineOverHistory == CostComparisonOver(all_banks)

\* C9 amended: the baseline counts every ingredient with a transaction in the
\* last-week bank file; dynamic_total is the sum of the estimated costs and
\* savings is baseline_total - dynamic_total.
C9_BaselineOverLastWeek == CostComparisonOver(bank_week3)

\* C9 witness: a run with both a baseline spend and a dynamic spend.
C9_Witness ==
  pc = "done" /\ recurring_cost > 0 /\ dynamic_cost > 0 /\ Len(rec_rows) = 2

InventoryKnown == pc \in {"prepare", "plan", "baseline", "done"}

LastDeliveryDate(ing) == latest_buy(ing).last_order_date + LEAD_TIME_DAYS

\* C10 as claimed: a last order delivered on or after the horizon start leaves
\* the ingredient with no inventory.
C10_ZeroOnOrAfterStart ==
  InventoryKnown =>
    \A ing \in IngredientsSeen :
      (InLatestBuy(ing) /\ LastDeliveryDate(ing) >= start_date) =>
        base_inventory[ing] = 0 /\ current_inventory[ing] = 0

\* C10 amended: a last order delivered after the horizon start leaves no
\* inventory; one delivered on the day the horizon starts counts as arrived,
\* and the estimator's balance is its quantity.
C10_ZeroAfterStart ==
  InventoryKnown =>
    \A ing \in IngredientsSeen :
      InLatestBuy(ing) =>
        /\ LastDeliveryDate(ing) > start_date =>
             base_inventory[ing] = 0 /\ current_inventory[ing] = 0
        /\ LastDeliveryDate(ing) = start_date =>
             base_inventory[ing] = latest_buy(ing).last_order_qty

\* C10 witness: one ingredient whose last order lands after the horizon start
\* and one whose last order lands on it.
C10_Witness ==
  /\ InventoryKnown
  /\ \E ing \in IngredientsSeen :
       InLatestBuy(ing) /\ LastDeliveryDate(ing) > start_date
  /\ \E ing \in IngredientsSeen :
       InLatestBuy(ing) /\ LastDeliveryDate(ing) = start_date

\* 0-based position of an ingredient among the ingredients in sorted order
RankOf(ing) == Cardinality({ j \in IngredientsSeen : j < ing })

\* C11 as claimed: the planner's starting inventory of every ingredient is the
\* estimator's replay balance, unscaled.
C11_StartIsBalance ==
  InventoryKnown =>
    \A ing \in IngredientsSeen : start_inv_of(ing) = base_inventory[ing]

\* C11 amended: the planner's starting inventory is the estimator's balance
\* multiplied by 0.30 + 0.12 x (position of the ingredient in sorted order,
\* modulo 10) and clamped at 0; it is 0 where the balance is 0.
C11_StartIsScaledBalance ==
  InventoryKnown =>
    \A ing \in IngredientsSeen :
      LET scaled == base_inventory[ing] * (30 + 12 * (RankOf(ing) % 10))
      IN  /\ start_inv_of(ing) = IF scaled < 0 THEN 0 ELSE scaled \div 100
          /\ base_inventory[ing] = 0 => start_inv_of(ing) = 0

\* C11 witness: the first two ingredients both have a positive balance, one
\* scaled by 0.30 and the other by 0.42.
C11_Witness ==
  /\ pc = "plan"
  /\ \E a, b \in IngredientsSeen :
       /\ RankOf(a) = 0 /\ base_inventory[a] > 0
       /\ 100 * start_inv_of(a) = 30 * base_inventory[a]
       /\ RankOf(b) = 1 /\ base_inventory[b] > 0
       /\ 100 * start_inv_of(b) = 42 * base_inventory[b]

GridBuilt == pc \in {"inventory", "prepare", "plan", "baseline", "done"}

\* grid rows of a (date, ingredient) pair
GridRowsOf(d, ing) ==
  { k \in DOMAIN daily : daily[k].date = d /\ daily[k].ingredient = ing }

\* C12: once built, the grid holds exactly one row for every pair of a horizon
\* date and an ingredient, on the seasonality path and on the fallback path.
C12_OneRowPerKey ==
  GridBuilt =>
    \A d \in start_date..end_date : \A ing \in IngredientsSeen :
      Cardinality(GridRowsOf(d, ing)) = 1

\* the planner is about to visit its first ingredient
PlanningNotStarted == pc = "plan" /\ ing_pos = 1

PlannerRunning == pc \in {"plan", "baseline", "done"}

\* every column of a grid row other than planned_delivery_qty
SameButPlanned(a, b) ==
  /\ a.date = b.date
  /\ a.ingredient = b.ingredient
  /\ a.forecast_usage = b.forecast_usage
  /\ a.actual_usage = b.actual_usage
  /\ a.daily_usage = b.daily_usage
  /\ a.delivery_qty = b.delivery_qty

\* what one planner step may do to the grid: nothing when it emits no
\* recommendation; otherwise it adds the order quantity it computed (the value
\* of the sizing formula, which the recommendation records rounded) to
\* planned_delivery_qty of the rows of (its ingredient, delivery_date)
PlannerStepFrame ==
  (pc = "plan" /\ ing_pos' = ing_pos + 1) =>
    /\ Len(daily') = Len(daily)
    /\ \A k \in DOMAIN daily : SameButPlanned(daily'[k], daily[k])
    /\ IF Len(reorder_rows') = Len(reorder_rows)
       THEN daily' = daily
       ELSE LET r == reorder_rows'[Len(reorder_rows')]
            IN  /\ r.ingredient = ingredients[ing_pos]
                /\ GridRowsOf(r.delivery_date, r.ingredient) # {}
                /\ \A k \in DOMAIN daily :
                     daily'[k].planned_delivery_qty =
                       daily[k].planned_delivery_qty
                         + (IF k \in GridRowsOf(r.delivery_date, r.ingredient)
                            THEN SizedQty(r) ELSE 0)

\* C13: planned_delivery_qty is 0 on every row before planning; a planner step
\* for an ingredient changes only planned_delivery_qty at (ingredient,
\* delivery_date), adding the order quantity, and nothing else in the grid;
\* a row with a non-zero planned_delivery_qty belongs to an ingredient with a
\* recommendation delivered on that row's date.
C13_PlannedDeliveryFrame ==
  /\ [](PlanningNotStarted =>
          \A k \in DOMAIN daily : daily[k].planned_delivery_qty = 0)
  /\ [][PlannerStepFrame]_vars
  /\ [](PlannerRunning =>
          \A k \in DOMAIN daily :
            daily[k].planned_delivery_qty # 0 =>
              \E n \in DOMAIN reorder_rows :
                /\ reorder_rows[n].ingredient = daily[k].ingredient
                /\ reorder_rows[n].delivery_date = daily[k].date)

\* C13 witness: the step for the first of two ingredients has recorded its
\* planned delivery and the second ingredient is still to be visited.
C13_Witness ==
  /\ pc = "plan" /\ ing_pos = 2 /\ Len(ingredients) = 2
  /\ \E k \in DOMAIN daily :
       /\ daily[k].ingredient = ingredients[1]
       /\ daily[k].planned_delivery_qty > 0
  /\ \E k \in DOMAIN daily :
       daily[k].ingredient = ingredients[2] /\ daily[k].daily_usage > 0

RECURSIVE RunInOrder(_, _, _)
\* the planner steps of the ingredients of a list, run one after the other
RunInOrder(order, grid, rows) ==
  IF order = <<>> THEN [daily |-> grid, reorder_rows |-> rows]
  ELSE LET after == StepResult(grid, rows, Head(order))
       IN  RunInOrder(Tail(order), after.daily, after.reorder_rows)

\* the result of the sequential run over the sorted ingredient list, started
\* from this grid with planned_delivery_qty at zero
SequentialRun == RunInOrder(ingredients, WithPlannedZero(daily), <<>>)

\* C14: whatever the order in which the planner steps of the ingredients were
\* run, the recommendations collected are the same set, and the final grid is
\* the same, as those of the sequential run.
C14_StepsCommute ==
  PlanningDone =>
    /\ Range(reorder_rows) = Range(SequentialRun.reorder_rows)
    /\ Len(reorder_rows) = Len(SequentialRun.reorder_rows)
    /\ daily = SequentialRun.daily

\* C14 witness: a finished run in which the step of the second ingredient ran
\* before the step of the first and both produced a recommendation.
C14_Witness ==
  /\ pc = "done"
  /\ Len(reorder_rows) = 2
  /\ reorder_rows[1].ingredient > reorder_rows[2].ingredient

\* C15: for every recommendation the inventory on the morning of the delivery
\* date is at least 0 and less than the remaining need, so the order quantity
\* is their difference and is positive: neither max(0, .) of the sizing
\* formula takes effect.
C15_GuardsNeverBind ==
  \A n \in DOMAIN reorder_rows :
    LET r    == reorder_rows[n]
        inv  == MorningInventory(r.ingredient, r.delivery_date)
        need == NeedFrom(r.ingredient, r.delivery_date)
    IN  /\ start_inv_of(r.ingredient) >= 0
        /\ inv >= 0
        /\ inv < need
        /\ SizedQty(r) = need - inv
        /\ SizedQty(r) > 0
        /\ \A k \in GridRowsOf(r.delivery_date, r.ingredient) :
             daily[k].planned_delivery_qty = need - inv

\* C15 witness: a recommendation for an ingredient whose estimated balance
\* was negative before the clamp, so that it starts the horizon with nothing.
C15_Witness ==
  /\ pc = "done"
  /\ \E n \in DOMAIN reorder_rows :
       /\ base_inventory[reorder_rows[n].ingredient] < 0
       /\ start_inv_of(reorder_rows[n].ingredient) = 0
       /\ reorder_rows[n].order_qty > 0

\* purchase lines of an ingredient, over all bank files, delivered in from..to
DeliveredLines(ing, from, to) ==
  { k \in DOMAIN all_banks :
      /\ all_banks[k].ingredient = ing
      /\ all_banks[k].txn_date + LEAD_TIME_DAYS \in from..to }

\* recorded actual usage of an ingredient on the days from..to
UsedIn(ing, from, to) ==
  SumOver({ k \in DOMAIN actual :
              actual[k].ingredient = ing /\ actual[k].date \in from..to },
          [k \in DOMAIN actual |-> actual[k].usage])

\* position in a table of purchase lines of the most recent line of an
\* ingredient, the later line where two have the same date
LastLineIn(table, ing) ==
  CHOOSE k \in LatestIn(table, ing) : \A m \in LatestIn(table, ing) : m <= k

\* the balance is the quantity of the last line of the table plus every ledger
\* delivery from that line's delivery date to the day before the horizon
\* starts, less the actual usage of those days; the last line is itself one
\* of the ledger deliveries, so its quantity is in the balance twice
ReplayedFrom(table, offset, ing) ==
  LET last  == LastLineIn(table, ing)
      qty   == table[last].qty
      deliv == table[last].txn_date + LEAD_TIME_DAYS
      lines == DeliveredLines(ing, deliv, start_date - 1)
      qtyOf == [k \in DOMAIN all_banks |-> all_banks[k].qty]
  IN  deliv < start_date =>
        /\ offset + last \in lines
        /\ base_inventory[ing] =
             qty + SumOver(lines, qtyOf) - UsedIn(ing, deliv, start_date - 1)
        /\ base_inventory[ing] =
             2 * qty + SumOver(lines \ {offset + last}, qtyOf)
               - UsedIn(ing, deliv, start_date - 1)

\* C16 as claimed: the replay starts from the most recent transaction of the
\* ingredient in the whole purchase history.
C16_ReplayFromHistory ==
  InventoryKnown =>
    \A ing \in IngredientsSeen :
      LatestIn(all_banks, ing) # {} => ReplayedFrom(all_banks, 0, ing)

\* C16 amended: the replay starts from the most recent transaction of the
\* ingredient in the last-week bank file, whose quantity it counts twice; an
\* ingredient with no transaction in that file has balance 0.
C16_ReplayFromLastWeek ==
  InventoryKnown =>
    \A ing \in IngredientsSeen :
      IF LatestIn(bank_week3, ing) = {}
      THEN base_inventory[ing] = 0
      ELSE ReplayedFrom(bank_week3, Len(bank_week1) + Len(bank_week2), ing)

\* C16 witness: an ingredient whose last order arrived before the horizon
\* start, with another delivery and recorded usage on the replayed days.
C16_Witness ==
  /\ InventoryKnown
  /\ \E ing \in IngredientsSeen :
       /\ InLatestBuy(ing)
       /\ LastDeliveryDate(ing) < start_date
       /\ Cardinality(DeliveredLines(ing, LastDeliveryDate(ing), start_date - 1)) = 2
       /\ UsedIn(ing, LastDeliveryDate(ing), start_date - 1) > 0
       /\ base_inventory[ing] > 2 * latest_buy(ing).last_order_qty

====
